---- MODULE Spec2Model ----
(***************************************************************************)
(* Model of src/health.py: a single-shot health probe.  One run parses its *)
(* arguments, loads ./tripleo-healthchecks.conf, issues one HTTP GET,      *)
(* parses and logs the JSON body, optionally asks systemd (over DBus) to   *)
(* restart the unit, and exits.                                            *)
(*                                                                         *)
(* Names (the SERVICE argument, section names, unit names) are sequences   *)
(* of dot-separated segments: <<"nova", "service">> is "nova.service".     *)
(***************************************************************************)
EXTENDS Integers, Sequences, FiniteSets, TLC

\* Longest SERVICE argument and the segments it is built from.
MaxSegs == 3
\* Most invocations of the script in a row.
MaxRuns == 2
Segs == {"nova", "service"}

\* All names of 1..n segments.
NamesUpTo(n) == UNION {[1..k -> Segs] : k \in 1..n}

ServiceArgs == NamesUpTo(MaxSegs)

\* Section names the configuration store may hold.
SectionNames == {<<"nova">>, <<"nova", "nova">>}

\* Raw option values of the section; "absent" is a key that is not there.
Absent == "absent"
TlsValues == {Absent, "true", "maybe"}
HostValues == {Absent, "127.0.0.1"}
PortValues == {Absent, "8989", "http"}
EndpointValues == {Absent, "/healthcheck"}
FailureActionValues == {Absent, "restart", "Restart"}
OnFailureClassesValues == {Absent, "a,b"}

Sections ==
  [name : SectionNames, tls : TlsValues, host : HostValues,
   port : PortValues, endpoint : EndpointValues,
   failure_action : FailureActionValues,
   on_failure_classes : OnFailureClassesValues]

\* The file ./tripleo-healthchecks.conf: missing, not parseable, or one section.
FileMissing == [kind |-> "missing"]
FileMalformed == [kind |-> "malformed"]
FileWith(sec) == [kind |-> "ini", section |-> sec]
Files == {FileMissing, FileMalformed} \cup {FileWith(sec) : sec \in Sections}

\* HTTP statuses and bodies the probed service may answer with.
Statuses == {200, 204, 404, 503}
BodyHealthy == "{\"detailed\":false,\"healthy\":true}"
BodyUnhealthy == "{\"detailed\":false,\"healthy\":false}"
BodyEmpty == ""
BodyHtml == "<html>Service Unavailable</html>"
Bodies == {BodyHealthy, BodyUnhealthy, BodyEmpty, BodyHtml}

NoResp == [kind |-> "none"]
Response(st, body) == [kind |-> "response", status_code |-> st, text |-> body]

Unset == "unset"

VARIABLES
  service,            \* parsed_args.service
  debug,              \* parsed_args.debug
  cfile,              \* the file at ./tripleo-healthchecks.conf
  srv,                \* self.__srv
  cfg,                \* self.__cfg: the sections read so far
  pc,                 \* position of the run
  uri,                \* local uri of run_check
  resp,               \* local resp of run_check
  on_failure_classes, \* local on_failure_classes of run_check
  healthy,            \* local healthy of run_check
  log,                \* records emitted through self.logger
  httpRequests,       \* GET requests issued, and how the last one ended
  getResult,
  restartInvoked,     \* number of calls of __restart_service
  busContacted,       \* dbus.SystemBus() was called
  restartCalls,       \* RestartUnit requests issued
  restartResult,      \* how __restart_service ended
  uncaught,           \* exception that escaped to the interpreter, or "none"
  exitCode,           \* <<>> while running, <<status>> once the process exited
  runs,               \* invocations of the script so far, this one included
  previous            \* <<>>, or <<what the invocation before this one did>>

vars == <<service, debug, cfile, srv, cfg, pc, uri, resp, on_failure_classes,
          healthy, log, httpRequests, getResult, restartInvoked, busContacted,
          restartCalls, restartResult, uncaught, exitCode, runs, previous>>

\* The arguments and the file: nothing in a run writes them.
inputs == <<service, debug, cfile>>
\* The locals of run_check.
locals == <<uri, resp, on_failure_classes, healthy>>
\* What the run did to the service manager.
restart == <<restartInvoked, busContacted, restartCalls, restartResult>>
\* The invocations before this one: no step of a run touches them.
earlier == <<runs, previous>>

----------------------------------------------------------------------------
\* Pure helpers

\* os.path.splitext(name)[0] on a name without path separators: the part
\* before the last dot, unless only dots precede it.
splitext_root(name) ==
  IF Len(name) >= 2 /\ \E i \in 1..(Len(name) - 1) : name[i] # ""
  THEN SubSeq(name, 1, Len(name) - 1)
  ELSE name

\* '{}.service'.format(self.__srv)
unit_name(s) == Append(s, "service")

\* ConfigParser.has_section
has_section(c, s) == \E sec \in c : sec.name = s

\* The section of c named s.
section_of(c, s) == CHOOSE sec \in c : sec.name = s

\* The file once ConfigParser.read(cfile) has returned: read opens it for
\* reading only.
file_after_read_removed(f) == FileMissing

file_after_read(f) == f

\* ConfigParser.read(cfile): the sections of the file
read(f) == IF f.kind = "ini" THEN {f.section} ELSE {}

\* load_config: the exception it raises for file f and identity s, or "ok".
load_config_no_section_check(f, s) ==
  IF f.kind = "missing" THEN "FileNotFoundError"
  ELSE IF f.kind = "malformed" THEN "ConfigParserError"
  ELSE "ok"

load_config_result(f, s) ==
  IF f.kind = "missing" THEN "FileNotFoundError"
  ELSE IF f.kind = "malformed" THEN "ConfigParserError"
  ELSE IF ~has_section(read(f), s) THEN "LookupError"
  ELSE "ok"

\* ConfigParser.getboolean(srv, 'tls', fallback=False)
getboolean_tls(sec) ==
  IF sec.tls = Absent THEN [ok |-> TRUE, value |-> FALSE]
  ELSE IF sec.tls \in {"1", "yes", "true", "on"} THEN [ok |-> TRUE, value |-> TRUE]
  ELSE IF sec.tls \in {"0", "no", "false", "off"} THEN [ok |-> TRUE, value |-> FALSE]
  ELSE [ok |-> FALSE, value |-> FALSE]

\* ConfigParser.getint(srv, 'port'): "ok", "NoOptionError" or "ValueError"
getint_port(sec) ==
  IF sec.port = Absent THEN "NoOptionError"
  ELSE IF sec.port \in {"8989"} THEN "ok"
  ELSE "ValueError"

\* ConfigParser.get(srv, key) without fallback
get_required(v) == IF v = Absent THEN "NoOptionError" ELSE "ok"

\* ConfigParser.get(srv, key, fallback='')
get_fallback(v) == IF v = Absent THEN "" ELSE v

\* str.split(','): the pieces of the value around each comma
split_comma(v) ==
  IF v = "a,b" THEN <<"a", "b">> ELSE <<v>>

\* json.loads(resp.text)
json_loads_lenient(text) ==
  IF text = BodyHealthy THEN [ok |-> TRUE, detailed |-> FALSE, healthy |-> TRUE]
  ELSE [ok |-> TRUE, detailed |-> FALSE, healthy |-> FALSE]

json_loads(text) ==
  IF text = BodyHealthy THEN [ok |-> TRUE, detailed |-> FALSE, healthy |-> TRUE]
  ELSE IF text = BodyUnhealthy THEN [ok |-> TRUE, detailed |-> FALSE, healthy |-> FALSE]
  ELSE [ok |-> FALSE, detailed |-> FALSE, healthy |-> FALSE]

\* json.dumps(status): one line, ", " and ": " separators
json_dumps(status) ==
  IF status.healthy
  THEN "{\"detailed\": false, \"healthy\": true}"
  ELSE "{\"detailed\": false, \"healthy\": false}"

\* resp.status_code in [200, 204]
is_healthy_below_500(status_code) ==
  IF status_code < 500 THEN "True" ELSE "False"

is_healthy(status_code) ==
  IF status_code \in {200, 204} THEN "True" ELSE "False"

\* Logger methods: the logger level is DEBUG with --debug and INFO without.
LogRec(level, kind, text) == [level |-> level, kind |-> kind, text |-> text]
logger_debug(l, kind) == IF debug THEN Append(l, LogRec("DEBUG", kind, "")) ELSE l
logger_info(l, kind, text) == Append(l, LogRec("INFO", kind, text))
logger_critical(l, kind) == Append(l, LogRec("CRITICAL", kind, ""))

----------------------------------------------------------------------------
Init ==
  /\ service \in ServiceArgs
  /\ debug \in BOOLEAN
  /\ cfile \in Files
  /\ srv = <<>>
  /\ cfg = {}
  /\ pc = "start"
  /\ uri = <<>>
  /\ resp = NoResp
  /\ on_failure_classes = <<>>
  /\ healthy = Unset
  /\ log = <<>>
  /\ httpRequests = <<>>
  /\ getResult = "none"
  /\ restartInvoked = 0
  /\ busContacted = FALSE
  /\ restartCalls = <<>>
  /\ restartResult = "none"
  /\ uncaught = "none"
  /\ exitCode = <<>>
  /\ runs = 1
  /\ previous = <<>>

\* sys.exit(code)
sys_exit_and_go_on(code) ==
  /\ pc' = pc
  /\ exitCode' = Append(exitCode, code)

sys_exit(code) ==
  /\ pc' = "done"
  /\ exitCode' = Append(exitCode, code)

\* An exception nobody catches: the interpreter prints a traceback and the
\* process exits with status 1.
Raise(exc) ==
  /\ uncaught' = exc
  /\ sys_exit(1)

\* sys.exit(2) of the two except clauses of __main__
config_error_status == 2

\* return 1 of the except clause of run_check
connection_error_return == 1

\* self.logger.critical(e) of the except clause of run_check
log_connection_error_as_info(l) == logger_info(l, "ConnectionError", "")

log_connection_error(l) == logger_critical(l, "ConnectionError")

\* return not healthy, as sys.exit takes it: False is status 0, True is 1.
not_healthy_inverted(h) == IF h = "True" THEN 1 ELSE 0

not_healthy(h) == IF h = "True" THEN 0 ELSE 1

----------------------------------------------------------------------------
\* __main__ up to load_config: Healthcheck(args) and the first debug record.
Construct ==
  /\ pc = "start"
  /\ srv' = splitext_root(service)
  /\ log' = logger_debug(log, "loading")
  /\ pc' = "load_config"
  /\ UNCHANGED <<inputs, earlier, cfg, locals, httpRequests, getResult, restart,
                 uncaught, exitCode>>

\* check.load_config() and the two except clauses around it.
load_config ==
  /\ pc = "load_config"
  /\ UNCHANGED <<service, debug, earlier, srv, locals, httpRequests,
                 getResult, restart>>
  /\ cfile' = IF cfile.kind = "missing" THEN cfile ELSE file_after_read(cfile)
  /\ cfg' = read(cfile)
  /\ LET r == load_config_result(cfile, srv) IN
     IF r \in {"FileNotFoundError", "LookupError"}
     THEN \* caught in __main__
          /\ log' = logger_critical(log, r)
          /\ sys_exit(config_error_status)
          /\ UNCHANGED uncaught
     ELSE IF r # "ok"
     THEN \* ConfigParser.read raised a configparser.Error
          /\ Raise(r)
          /\ UNCHANGED log
     ELSE /\ pc' = "run_check"
          /\ UNCHANGED <<log, uncaught, exitCode>>

\* The first failure met while run_check reads tls, host, port and endpoint,
\* in evaluation order, or "ok".
uri_error(c, s) ==
  IF ~has_section(c, s) THEN "NoSectionError"
  ELSE LET sec == section_of(c, s) IN
       IF ~getboolean_tls(sec).ok THEN "ValueError"
       ELSE IF get_required(sec.host) # "ok" THEN get_required(sec.host)
       ELSE IF getint_port(sec) # "ok" THEN getint_port(sec)
       ELSE get_required(sec.endpoint)

\* 'http{}://{}:{}{}'.format(proto, host, port, endpoint)
build_uri(sec) ==
  <<IF getboolean_tls(sec).value THEN "https" ELSE "http",
    sec.host, sec.port, sec.endpoint>>

\* run_check up to the debug record that precedes the request.
run_check_uri ==
  /\ pc = "run_check"
  /\ UNCHANGED <<inputs, earlier, srv, cfg, resp, on_failure_classes, healthy,
                 httpRequests, getResult, restart>>
  /\ IF uri_error(cfg, srv) # "ok"
     THEN /\ Raise(uri_error(cfg, srv))
          /\ UNCHANGED <<uri, log>>
     ELSE /\ uri' = build_uri(section_of(cfg, srv))
          /\ log' = logger_debug(log, "running")
          /\ pc' = "http_get"
          /\ UNCHANGED <<uncaught, exitCode>>

\* requests.get(uri) and its except clause.
run_check_get_retry ==
  /\ pc = "http_get"
  /\ httpRequests' = Append(httpRequests, uri)
  /\ UNCHANGED <<inputs, earlier, srv, cfg, uri, on_failure_classes, healthy, restart>>
  /\ \/ /\ getResult' = "ConnectionError"
        /\ log' = log_connection_error(log)
        /\ UNCHANGED <<pc, exitCode, resp, uncaught>>
     \/ /\ getResult' = "RequestException"
        /\ Raise("RequestException")
        /\ UNCHANGED <<resp, log>>
     \/ \E st \in Statuses, body \in Bodies :
          /\ getResult' = "response"
          /\ resp' = Response(st, body)
          /\ pc' = "parse"
          /\ UNCHANGED <<log, uncaught, exitCode>>

run_check_get ==
  /\ pc = "http_get"
  /\ httpRequests' = Append(httpRequests, uri)
  /\ UNCHANGED <<inputs, earlier, srv, cfg, uri, on_failure_classes, healthy, restart>>
  /\ \/ \* requests.exceptions.ConnectionError: logged, run_check returns 1
        /\ getResult' = "ConnectionError"
        /\ log' = log_connection_error(log)
        /\ sys_exit(connection_error_return)
        /\ UNCHANGED <<resp, uncaught>>
     \/ \* any other requests exception is not caught
        /\ getResult' = "RequestException"
        /\ Raise("RequestException")
        /\ UNCHANGED <<resp, log>>
     \/ \E st \in Statuses, body \in Bodies :
          /\ getResult' = "response"
          /\ resp' = Response(st, body)
          /\ pc' = "parse"
          /\ UNCHANGED <<log, uncaught, exitCode>>

\* run_check from on_failure_classes to the info record with the payload.
run_check_parse ==
  /\ pc = "parse"
  /\ on_failure_classes' =
       split_comma(get_fallback(section_of(cfg, srv).on_failure_classes))
  /\ UNCHANGED <<inputs, earlier, srv, cfg, uri, resp, httpRequests, getResult, restart>>
  /\ LET status == json_loads(resp.text) IN
     IF ~status.ok
     THEN /\ Raise("JSONDecodeError")
          /\ UNCHANGED <<healthy, log>>
     ELSE /\ healthy' = is_healthy(resp.status_code)
          /\ log' = logger_info(log, "payload", json_dumps(status))
          /\ pc' = "decide"
          /\ UNCHANGED <<uncaught, exitCode>>

\* not healthy and failure_action == 'restart'
wants_restart_if_classes(h, failure_action) ==
  h # "True" /\ failure_action = "restart" /\ on_failure_classes # <<"">>

wants_restart_any_action(h, failure_action) ==
  h # "True" /\ failure_action # ""

wants_restart_whatever_health(h, failure_action) == failure_action = "restart"

wants_restart(h, failure_action) == h # "True" /\ failure_action = "restart"

\* run_check from failure_action to the call of __restart_service or return.
run_check_decide ==
  /\ pc = "decide"
  /\ UNCHANGED <<inputs, earlier, srv, cfg, locals, log, httpRequests, getResult,
                 busContacted, restartCalls, restartResult, uncaught>>
  /\ LET failure_action == get_fallback(section_of(cfg, srv).failure_action) IN
     IF wants_restart(healthy, failure_action)
     THEN /\ restartInvoked' = restartInvoked + 1
          /\ pc' = "restart_bus"
          /\ UNCHANGED exitCode
     ELSE /\ sys_exit(not_healthy(healthy))
          /\ UNCHANGED restartInvoked

\* __restart_service up to the debug record: SystemBus(), get_object() and
\* Interface(); the first two are bus calls and may raise DBusException,
\* which nothing catches there.
restart_service_bus ==
  /\ pc = "restart_bus"
  /\ busContacted' = TRUE
  /\ UNCHANGED <<inputs, earlier, srv, cfg, locals, httpRequests, getResult,
                 restartInvoked, restartCalls>>
  /\ \/ \E step \in {"SystemBus", "get_object"} :
          /\ restartResult' = step
          /\ Raise("DBusException")
          /\ UNCHANGED log
     \/ /\ log' = logger_debug(log, "trying")
        /\ pc' = "restart_unit"
        /\ UNCHANGED <<restartResult, uncaught, exitCode>>

\* manager.RestartUnit(...) with its except clause, then the return of
\* run_check into sys.exit.
restart_service_unit ==
  /\ pc = "restart_unit"
  /\ restartCalls' = Append(restartCalls, [unit |-> unit_name(srv), mode |-> "fail"])
  /\ UNCHANGED <<inputs, earlier, srv, cfg, locals, httpRequests, getResult,
                 restartInvoked, busContacted, uncaught>>
  /\ \/ \* dbus.exceptions.DBusException
        /\ restartResult' = "RestartUnit"
        /\ log' = logger_critical(log, "DBusException")
        /\ sys_exit(1)
     \/ /\ restartResult' = "ok"
        /\ log' = logger_info(log, "restart_requested", "")
        /\ sys_exit(not_healthy(healthy))

Next ==
  \/ Construct
  \/ load_config
  \/ run_check_uri
  \/ run_check_get
  \/ run_check_parse
  \/ run_check_decide
  \/ restart_service_bus
  \/ restart_service_unit

Spec == Init /\ [][Next]_vars

\* What a finished invocation leaves for comparison with the next one.
RunRecord ==
  [cfile |-> cfile, getResult |-> getResult, resp |-> resp,
   restartResult |-> restartResult, restartInvoked |-> restartInvoked,
   restartCalls |-> restartCalls, healthy |-> healthy, log |-> log,
   exitCode |-> exitCode]

\* A new process: the Healthcheck object, the locals and the logger are new,
\* the arguments are those of the run before.
NewProcess ==
  /\ pc = "done"
  /\ runs < MaxRuns
  /\ runs' = runs + 1
  /\ previous' = <<RunRecord>>
  /\ srv' = <<>>
  /\ cfg' = {}
  /\ pc' = "start"
  /\ uri' = <<>>
  /\ resp' = NoResp
  /\ on_failure_classes' = <<>>
  /\ healthy' = Unset
  /\ log' = <<>>
  /\ httpRequests' = <<>>
  /\ getResult' = "none"
  /\ restartInvoked' = 0
  /\ busContacted' = FALSE
  /\ restartCalls' = <<>>
  /\ restartResult' = "none"
  /\ uncaught' = "none"
  /\ exitCode' = <<>>
  /\ UNCHANGED <<service, debug>>

\* The script is invoked again with the same arguments; the file is what the
\* run before left.
RunAgain ==
  /\ NewProcess
  /\ UNCHANGED cfile

\* The script is invoked again with the same arguments after the value of
\* on_failure_classes in the section was changed, set or removed.
RunAgainWithOtherClasses ==
  /\ NewProcess
  /\ cfile.kind = "ini"
  /\ \E v \in OnFailureClassesValues \ {cfile.section.on_failure_classes} :
       cfile' = FileWith([cfile.section EXCEPT !.on_failure_classes = v])

NextRepeat == Next \/ RunAgain

RepeatSpec == Init /\ [][NextRepeat]_vars

NextEdit == Next \/ RunAgainWithOtherClasses

EditSpec == Init /\ [][NextEdit]_vars

\* Every step of a run is a blocking call that returns or fails.
FairSpec == Spec /\ WF_vars(Next)

----------------------------------------------------------------------------
\* Vocabulary of the properties

\* The store holds a section named after the service identity.
SectionFound == pc # "start" /\ has_section(read(cfile), srv)

\* The section is there and tls, host, port and endpoint all read without error.
ValidConfig == SectionFound /\ uri_error(read(cfile), srv) = "ok"

\* requests.get returned a response.
ResponseReceived == getResult = "response"

\* failure_action as run_check reads it ("" when unset).
ConfiguredFailureAction ==
  IF cfile.kind = "ini" THEN get_fallback(cfile.section.failure_action) ELSE ""

\* Number of records of log l with this level and kind.
CountLog(l, level, kind) ==
  Cardinality({i \in DOMAIN l : l[i].level = level /\ l[i].kind = kind})

\* Number of records of log l at this level.
CountLevel(l, level) == Cardinality({i \in DOMAIN l : l[i].level = level})

\* Positions past the payload record in run_check.
AfterParse == {"decide", "restart_bus", "restart_unit", "done"}

----------------------------------------------------------------------------
\* C1: with a valid section and a response of status 200 or 204, the run is
\* healthy and exits 0 whatever the body is.
C1_Status2xxIsHealthyExit0 ==
  (pc = "done" /\ ValidConfig /\ ResponseReceived
     /\ resp.status_code \in {200, 204})
  => (healthy = "True" /\ exitCode = <<0>>)

\* C2: with a valid section and a response of any other status, the run is
\* unhealthy and exits 1, restart configured or not.
C2_OtherStatusIsUnhealthyExit1 ==
  (pc = "done" /\ ValidConfig /\ ResponseReceived
     /\ resp.status_code \notin {200, 204})
  => (healthy = "False" /\ exitCode = <<1>>)

\* load_config fails for a missing store or a missing section.
LoadConfigFails ==
  /\ pc # "start"
  /\ \/ cfile.kind = "missing"
     \/ cfile.kind = "ini" /\ ~has_section(read(cfile), srv)

\* C3: when load_config fails for a missing store or a missing section, the
\* run logs one critical record and exits 2, and at no point of the run is an
\* HTTP request or a restart request issued or the bus contacted.
C3_LoadFailureExits2WithoutAnyCall ==
  LoadConfigFails =>
    /\ httpRequests = <<>>
    /\ restartCalls = <<>>
    /\ ~busContacted
    /\ pc \in {"load_config", "done"}
    /\ pc = "done" =>
         /\ exitCode = <<2>>
         /\ uncaught = "none"
         /\ CountLevel(log, "CRITICAL") = 1
         /\ log[Len(log)].level = "CRITICAL"

C3_Witness ==
  /\ pc = "done"
  /\ cfile.kind = "ini"
  /\ srv = <<"nova", "service">>
  /\ cfile.section.name = <<"nova">>
  /\ Len(log) >= 1

\* C4: when the GET fails with a connection error, the error is logged at
\* critical level, the run exits 1 and no payload is ever logged.
C4_ConnectionErrorCriticalExit1NoPayload ==
  getResult = "ConnectionError" =>
    /\ pc = "done"
    /\ exitCode = <<1>>
    /\ CountLog(log, "CRITICAL", "ConnectionError") = 1
    /\ CountLevel(log, "INFO") = 0

C4_Witness ==
  /\ getResult = "ConnectionError"
  /\ Len(httpRequests) = 1
  /\ cfile.section.failure_action = "restart"

\* C5: with failure_action 'restart' and a response whose status is not 200
\* or 204, the restart operation is invoked exactly once and every request
\* it sends names '<identity>.service' with mode 'fail'.
C5_RestartInvokedOnceOnUnhealthy ==
  (pc = "done" /\ ValidConfig /\ ConfiguredFailureAction = "restart"
     /\ ResponseReceived /\ resp.status_code \notin {200, 204})
  => /\ restartInvoked = 1
     /\ \A i \in DOMAIN restartCalls :
          restartCalls[i] = [unit |-> unit_name(srv), mode |-> "fail"]

\* C6: when failure_action is unset or anything but exactly 'restart', the
\* restart operation is never invoked, no RestartUnit request is issued and
\* the bus is never contacted.
C6_NoRestartUnlessConfigured ==
  ConfiguredFailureAction # "restart" =>
    /\ restartInvoked = 0
    /\ restartCalls = <<>>
    /\ ~busContacted

C6_Witness ==
  /\ pc = "done"
  /\ healthy = "False"
  /\ ConfiguredFailureAction = "Restart"
  /\ exitCode = <<1>>

\* C7: whenever the restart fails with a bus error, at any of its steps, the
\* failure is logged at critical level, the process exits 1 and the
\* confirmation of the restart request is never logged.
C7_RestartFailureCriticalExit1 ==
  restartResult \in {"SystemBus", "get_object", "RestartUnit"} =>
    /\ pc = "done"
    /\ exitCode = <<1>>
    /\ CountLog(log, "CRITICAL", "DBusException") = 1
    /\ CountLog(log, "INFO", "restart_requested") = 0

\* C8: whenever a response is received the payload is logged exactly once at
\* info level, and no restart is started before that record.
C8_PayloadLoggedOnceBeforeRestart ==
  /\ (ResponseReceived /\ pc \in AfterParse) =>
       CountLog(log, "INFO", "payload") = 1
  /\ (restartInvoked > 0 \/ busContacted \/ restartCalls # <<>>) =>
       CountLog(log, "INFO", "payload") = 1
  /\ CountLog(log, "INFO", "payload") <= 1

\* C9: when the section exists but host, port or endpoint is missing or port
\* is not an integer, the run exits 2 and issues no HTTP request.
C9_BadRequiredKeyExits2 ==
  (pc = "done" /\ SectionFound
     /\ getboolean_tls(section_of(read(cfile), srv)).ok
     /\ uri_error(read(cfile), srv) # "ok")
  => (exitCode = <<2>> /\ httpRequests = <<>>)

\* C10: every run terminates with exactly one exit code, which is 0, 1 or 2,
\* set at the moment the run ends, and nothing happens after it is set.
C10_TerminatesWithOneExitCode ==
  /\ <>(pc = "done")
  /\ [](pc = "done" <=> Len(exitCode) = 1)
  /\ [](\A i \in DOMAIN exitCode : exitCode[i] \in {0, 1, 2})
  /\ [](Len(exitCode) <= 1)
  /\ [][exitCode # <<>> => UNCHANGED vars]_vars

C10_Witness ==
  /\ pc = "done"
  /\ restartResult = "ok"
  /\ exitCode = <<1>>
  /\ Len(log) >= 2

----------------------------------------------------------------------------
\* The SERVICE argument without a trailing ".service", unchanged otherwise.
StripServiceSuffix(name) ==
  IF Len(name) >= 2 /\ name[Len(name)] = "service"
  THEN SubSeq(name, 1, Len(name) - 1)
  ELSE name

\* C11: the service identity is the SERVICE argument with a trailing
\* ".service" removed when present and the argument unchanged otherwise, so
\* X and X.service give the same section X and the same unit X.service.
C11_IdentityStripsOnlyServiceSuffix ==
  pc # "start" =>
    /\ srv = StripServiceSuffix(service)
    /\ \A i \in DOMAIN restartCalls :
         restartCalls[i].unit = unit_name(StripServiceSuffix(service))

PayloadBefore(l, i) ==
  \E j \in 1..(i - 1) : l[j].level = "INFO" /\ l[j].kind = "payload"

\* C15: when the restart request succeeds, the confirmation is logged at info
\* level after the payload record, run_check returns and the run exits 1.
C15_SuccessfulRestartStillExits1 ==
  restartResult = "ok" =>
    /\ pc = "done"
    /\ uncaught = "none"
    /\ exitCode = <<1>>
    /\ log[Len(log)] = LogRec("INFO", "restart_requested", "")
    /\ CountLog(log, "INFO", "restart_requested") = 1
    /\ PayloadBefore(log, Len(log))

C15_Witness ==
  /\ restartResult = "ok"
  /\ Len(restartCalls) = 1
  /\ resp.status_code = 503

\* The run has started the restart operation in some way.
RestartStarted == restartInvoked > 0 \/ busContacted \/ restartCalls # <<>>

\* C16: a restart is started only after a response with a status outside
\* {200, 204}; healthy runs, connection failures and configuration errors
\* never start one, even with failure_action 'restart'.
C16_RestartOnlyAfterUnhealthyResponse ==
  /\ RestartStarted =>
       (ResponseReceived /\ resp.status_code \notin {200, 204})
  /\ (healthy = "True" \/ getResult = "ConnectionError" \/ LoadConfigFails) =>
       ~RestartStarted

C16_Witness ==
  /\ pc = "done"
  /\ healthy = "True"
  /\ resp.status_code = 204
  /\ ConfiguredFailureAction = "restart"
  /\ ~RestartStarted

\* C17: a run exits 0 only if the configuration loaded, a response of status
\* 200 or 204 was received, its payload was logged at info level and no
\* restart was started.
C17_Exit0OnlyWhenHealthy ==
  exitCode = <<0>> =>
    /\ ValidConfig
    /\ ResponseReceived
    /\ resp.status_code \in {200, 204}
    /\ CountLog(log, "INFO", "payload") = 1
    /\ ~RestartStarted

C17_Witness ==
  /\ exitCode = <<0>>
  /\ resp.status_code = 200
  /\ resp.text = BodyUnhealthy

\* Bodies that are not JSON documents.
NotJson == {BodyEmpty, BodyHtml}

ClassesParsed == ResponseReceived /\ pc # "parse"

\* C19: on_failure_classes is the value split at its commas, in order, and
\* the empty sequence when the key is absent.
C19_AbsentClassesIsEmptyList ==
  ClassesParsed =>
    /\ cfile.section.on_failure_classes = "a,b" =>
         on_failure_classes = <<"a", "b">>
    /\ cfile.section.on_failure_classes = Absent =>
         Len(on_failure_classes) = 0

----------------------------------------------------------------------------
\* This invocation has ended and an earlier one is on record.
SecondRunDone == Len(previous) = 1 /\ pc = "done"

\* The service answered this invocation as it answered the one before.
SameAnswer ==
  /\ getResult \notin {"ConnectionError", "RequestException"}
  /\ getResult = "response" => resp = previous[1].resp

SameEnvironment ==
  /\ getResult = previous[1].getResult
  /\ resp = previous[1].resp
  /\ (restartResult # "none" /\ previous[1].restartResult # "none") =>
       restartResult = previous[1].restartResult

====
